---- MODULE Spec2Model ----
(***************************************************************************)
(* A model of two parts of the Cursive terminal toolkit:                   *)
(*   - src/src/backend/curses/n.rs : the ncurses backend `Concrete`        *)
(*     (color-pair cache, scoped colors, input polling and key decoding);  *)
(*   - src/src/views/dialog.rs     : the `Dialog` view                      *)
(*     (focus state machine, measuring and layout).                        *)
(* Four specifications share the variables: SpecCache, SpecInput,         *)
(* SpecDialog and SpecGeometry. Each lets one part run and keeps the       *)
(* others at rest.                                                         *)
(***************************************************************************)
EXTENDS Integers, Sequences, FiniteSets, TLC

VARIABLES
    \* ---- backend (n.rs) ----
    COLOR_PAIRS,    \* value of ncurses::COLOR_PAIRS() for this terminal
    pairs,          \* Concrete.pairs : HashMap<ColorPair, i16>
    current_style,  \* Concrete.current_style : Cell<ColorPair>
    palette,        \* driver: slot -> pair last given to ncurses::init_pair
    attr,           \* driver: slot last given to ncurses::attron(COLOR_PAIR(i))
    stack,          \* with_color calls whose callback f is running: for each,
                    \* its `current` and whether `current != colors`
    last,           \* the last get_or_create call made, and its outcome
    firstSlot,      \* per pair, the slot get_or_create first returned for it
    \* ---- input (n.rs) ----
    timeout,        \* driver: value last given to ncurses::timeout
    rate,           \* the fps last given to set_refresh_rate (none yet: 0)
    input,          \* driver: the codes typed and not yet read by getch
    polled,         \* the last poll_event call made, and its outcome
    \* ---- dialog (dialog.rs) ----
    title,          \* Dialog.title, as its display width
    buttons,        \* Dialog.buttons : Vec<SizedView<Button>>
    padding,        \* Dialog.padding : Vec4
    borders,        \* Dialog.borders : Vec4
    focus,          \* Dialog.focus : Focus
    content,        \* the calls made so far: was the content ever measured
                    \* (measured), was the dialog measured since its last
                    \* layout (asked), and before every layout (conforming)
    dlast           \* the last Dialog call made, and its outcome

varsCache == <<COLOR_PAIRS, pairs, current_style, palette, attr, stack,
               last, firstSlot>>
varsInput == <<timeout, rate, input, polled>>
varsDialog == <<title, buttons, padding, borders, focus, content, dlast>>
vars == <<varsCache, varsInput, varsDialog>>

\* ------------------------------------------------------------------ bounds

\* Largest pair capacity a terminal reports in the model (0 .. MaxColorPairs).
MaxColorPairs == 3
\* Colors are 0 .. MaxColor; color 0 is the one from_256colors(0) yields.
MaxColor == 1
\* Deepest nesting of with_color callbacks.
MaxDepth == 2

\* ------------------------------------------------------------------ helpers

None == -1

Max(a, b) == IF a >= b THEN a ELSE b

\* `x as i16`
ToI16(x) == ((x + 32768) % 65536) - 32768

\* `x as u8`
ToU8(x) == x % 256

Colors == 0 .. MaxColor

\* ColorPair { front, back }: the pairs asked for in the model are each color
\* on itself, which is what clear asks for, and each color on color 0.
ColorPairs == {<<c, c>> : c \in Colors} \cup {<<c, 0>> : c \in Colors}

EmptyMap == [p \in {} |-> 0]

\* ================================================================ color cache

\* Concrete::insert_color: the new map, the slot, and the init_pair call made.
insert_color(prs, pair) ==
    LET n == ToI16(1 + ToI16(Cardinality(DOMAIN prs)))
        room == COLOR_PAIRS > n
        target == IF room THEN n ELSE n - 1
        kept == IF room THEN DOMAIN prs
                ELSE {q \in DOMAIN prs : prs[q] # target}
    IN  [pairs |-> [q \in kept \cup {pair} |->
                        IF q = pair THEN target ELSE prs[q]],
         slot |-> target,
         init_pair |-> target]

get_or_create_NoLookup(prs, pair) == insert_color(prs, pair)

\* Concrete::get_or_create
get_or_create(prs, pair) ==
    IF pair \in DOMAIN prs
    THEN [pairs |-> prs, slot |-> prs[pair], init_pair |-> None]
    ELSE insert_color(prs, pair)

\* What one get_or_create call leaves behind, besides its return value.
Called(op, pair, r) ==
    /\ pairs' = r.pairs
    /\ palette' = IF r.init_pair = None THEN palette
                  ELSE [s \in DOMAIN palette \cup {r.init_pair} |->
                            IF s = r.init_pair THEN pair ELSE palette[s]]
    /\ last' = [op |-> op, called |-> TRUE, pair |-> pair, ret |-> r.slot,
                wasMapped |-> pair \in DOMAIN pairs, prePairs |-> pairs,
                init_pair |-> r.init_pair]
    /\ firstSlot' = IF firstSlot[pair] = None
                    THEN [firstSlot EXCEPT ![pair] = r.slot]
                    ELSE firstSlot

NotCalled(op) ==
    /\ UNCHANGED <<pairs, palette, firstSlot>>
    /\ last' = [op |-> op, called |-> FALSE, pair |-> <<0, 0>>, ret |-> None,
                wasMapped |-> FALSE, prePairs |-> pairs, init_pair |-> None]

\* Concrete::set_colors
set_colors(op, pair) ==
    LET r == get_or_create(pairs, pair)
    IN  /\ Called(op, pair, r)
        /\ current_style' = pair
        /\ attr' = r.slot

\* A call of get_or_create on its own.
GetOrCreate(pair) ==
    /\ Called("get_or_create", pair, get_or_create(pairs, pair))
    /\ UNCHANGED <<COLOR_PAIRS, current_style, attr, stack>>
    /\ UNCHANGED <<varsInput, varsDialog>>

\* Concrete::clear (what is on the screen is not part of the model)
Clear(color) ==
    LET pair == <<color, color>>
        r == get_or_create(pairs, pair)
    IN  /\ Called("clear", pair, r)
        /\ UNCHANGED <<COLOR_PAIRS, current_style, attr, stack>>
        /\ UNCHANGED <<varsInput, varsDialog>>

\* Concrete::with_color, up to the call of f.
WithColorEnter(colors) ==
    /\ Len(stack) < MaxDepth
    /\ stack' = Append(stack, [current |-> current_style,
                                changed |-> current_style # colors])
    /\ IF current_style # colors
       THEN set_colors("with_color", colors)
       ELSE NotCalled("with_color") /\ UNCHANGED <<current_style, attr>>
    /\ UNCHANGED COLOR_PAIRS
    /\ UNCHANGED <<varsInput, varsDialog>>

\* Concrete::with_color, after f has returned.
WithColorExit ==
    /\ Len(stack) > 0
    /\ LET top == stack[Len(stack)]
       IN  /\ stack' = SubSeq(stack, 1, Len(stack) - 1)
           /\ IF top.changed
              THEN set_colors("with_color_end", top.current)
              ELSE NotCalled("with_color_end")
                   /\ UNCHANGED <<current_style, attr>>
    /\ UNCHANGED COLOR_PAIRS
    /\ UNCHANGED <<varsInput, varsDialog>>

\* Concrete::with_color, when f panics: the call is unwound at `f();` and
\* nothing after it runs.
WithColorUnwind ==
    /\ Len(stack) > 0
    /\ stack' = SubSeq(stack, 1, Len(stack) - 1)
    /\ NotCalled("with_color_unwind")
    /\ UNCHANGED <<COLOR_PAIRS, current_style, attr>>
    /\ UNCHANGED <<varsInput, varsDialog>>

\* Backend::init, on a terminal with any pair capacity.
InitCache ==
    /\ COLOR_PAIRS \in 0 .. MaxColorPairs
    /\ pairs = EmptyMap
    /\ current_style = <<0, 0>>
    /\ palette = EmptyMap
    /\ attr = None
    /\ stack = <<>>
    /\ last = [op |-> "init", called |-> FALSE, pair |-> <<0, 0>>,
               ret |-> None, wasMapped |-> FALSE, prePairs |-> EmptyMap,
               init_pair |-> None]
    /\ firstSlot = [p \in ColorPairs |-> None]

NextCache ==
    \/ \E p \in ColorPairs : GetOrCreate(p)
    \/ \E c \in Colors : Clear(c)
    \/ \E p \in ColorPairs : WithColorEnter(p)
    \/ WithColorExit

\* The same calls, with callbacks that may panic.
NextStyle ==
    \/ \E p \in ColorPairs : GetOrCreate(p)
    \/ \E c \in Colors : Clear(c)
    \/ \E p \in ColorPairs : WithColorEnter(p)
    \/ WithColorExit
    \/ WithColorUnwind

\* ====================================================================== input

\* An Event (event.rs): kind is the variant, key the Key it carries, val the
\* character or the F-key number, bytes the payload of Event::Unknown.
Ev(kind, key, val) == [kind |-> kind, key |-> key, val |-> val, bytes |-> <<>>]
Key(k) == Ev("Key", k, 0)
Shift(k) == Ev("Shift", k, 0)
Alt(k) == Ev("Alt", k, 0)
AltShift(k) == Ev("AltShift", k, 0)
Ctrl(k) == Ev("Ctrl", k, 0)
CtrlShift(k) == Ev("CtrlShift", k, 0)
CtrlAlt(k) == Ev("CtrlAlt", k, 0)
Char(c) == Ev("Char", "", c)
CtrlChar(c) == Ev("CtrlChar", "", c)
Refresh == Ev("Refresh", "", 0)
WindowResize == Ev("WindowResize", "", 0)
Unknown_Error(bs) == Ev("none", "", 0)
Unknown(bs) == [kind |-> "Unknown", key |-> "", val |-> 0, bytes |-> bs]
NoEvent == Ev("none", "", 0)

\* Key::from_f
from_f(n) == n

\* (b'a' + (c - 1) as u8) as char, the letter of the control code c
ctrl_letter_OffByOne(c) == ToU8(97 + ToU8(c))
ctrl_letter(c) == ToU8(97 + ToU8(c - 1))

\* The key codes of ncurses.h that n.rs names.
KEY_DOWN == 258
KEY_UP == 259
KEY_LEFT == 260
KEY_RIGHT == 261
KEY_HOME == 262
KEY_BACKSPACE == 263
KEY_F0 == 264
KEY_F1 == 265
KEY_F12 == 276
KEY_DC == 330
KEY_IC == 331
KEY_SF == 336
KEY_SR == 337
KEY_NPAGE == 338
KEY_PPAGE == 339
KEY_ENTER == 343
KEY_B2 == 350
KEY_BTAB == 353
KEY_END == 360
KEY_SDC == 383
KEY_SEND == 386
KEY_SHOME == 391
KEY_SLEFT == 393
KEY_SNEXT == 396
KEY_SPREVIOUS == 398
KEY_SRIGHT == 402

\* The single-code arms of parse_ncurses_char, in the order of the match.
KeyTable == <<
    <<-1, Refresh>>,
    <<9, Key("Tab")>>,
    <<10, Key("Enter")>>, <<KEY_ENTER, Key("Enter")>>,
    <<27, Key("Esc")>>,
    <<127, Key("Backspace")>>, <<KEY_BACKSPACE, Key("Backspace")>>,
    <<410, WindowResize>>,
    <<520, Alt("Del")>>, <<521, AltShift("Del")>>,
    <<522, Ctrl("Del")>>, <<523, CtrlShift("Del")>>,
    <<526, Alt("Down")>>, <<527, AltShift("Down")>>, <<528, Ctrl("Down")>>,
    <<529, CtrlShift("Down")>>, <<530, CtrlAlt("Down")>>,
    <<531, Alt("End")>>, <<532, AltShift("End")>>, <<533, Ctrl("End")>>,
    <<534, CtrlShift("End")>>, <<535, CtrlAlt("End")>>,
    <<536, Alt("Home")>>, <<537, AltShift("Home")>>, <<538, Ctrl("Home")>>,
    <<539, CtrlShift("Home")>>, <<540, CtrlAlt("Home")>>,
    <<541, Alt("Ins")>>, <<542, AltShift("Ins")>>, <<543, Ctrl("Ins")>>,
    <<545, CtrlAlt("Ins")>>,
    <<546, Alt("Left")>>, <<547, AltShift("Left")>>, <<548, Ctrl("Left")>>,
    <<549, CtrlShift("Left")>>, <<550, CtrlAlt("Left")>>,
    <<551, Alt("PageDown")>>, <<552, AltShift("PageDown")>>,
    <<553, Ctrl("PageDown")>>, <<554, CtrlShift("PageDown")>>,
    <<555, CtrlAlt("PageDown")>>,
    <<556, Alt("PageUp")>>, <<557, AltShift("PageUp")>>,
    <<558, Ctrl("PageUp")>>, <<559, CtrlShift("PageUp")>>,
    <<560, CtrlAlt("PageUp")>>,
    <<561, Alt("Right")>>, <<562, AltShift("Right")>>, <<563, Ctrl("Right")>>,
    <<564, CtrlShift("Right")>>, <<565, CtrlAlt("Right")>>,
    <<567, Alt("Up")>>, <<568, AltShift("Up")>>, <<569, Ctrl("Up")>>,
    <<570, CtrlShift("Up")>>, <<571, CtrlAlt("Up")>>,
    <<KEY_B2, Key("NumpadCenter")>>,
    <<KEY_DC, Key("Del")>>,
    <<KEY_IC, Key("Ins")>>,
    <<KEY_BTAB, Shift("Tab")>>,
    <<KEY_SLEFT, Shift("Left")>>,
    <<KEY_SRIGHT, Shift("Right")>>,
    <<KEY_LEFT, Key("Left")>>,
    <<KEY_RIGHT, Key("Right")>>,
    <<KEY_UP, Key("Up")>>,
    <<KEY_DOWN, Key("Down")>>,
    <<KEY_SR, Shift("Up")>>,
    <<KEY_SF, Shift("Down")>>,
    <<KEY_PPAGE, Key("PageUp")>>,
    <<KEY_NPAGE, Key("PageDown")>>,
    <<KEY_HOME, Key("Home")>>,
    <<KEY_END, Key("End")>>,
    <<KEY_SHOME, Shift("Home")>>,
    <<KEY_SEND, Shift("End")>>,
    <<KEY_SDC, Shift("Del")>>,
    <<KEY_SNEXT, Shift("PageDown")>>,
    <<KEY_SPREVIOUS, Shift("PageUp")>> >>

\* The 4 bytes of an i32, lowest first: ((other >> (8 * i)) & 0xFF) as u8.
\* An i32 below 0 is other + 2^32; its bytes are those of -(other + 1),
\* each complemented.
ByteOf(other, i) ==
    IF other >= 0 THEN (other \div (256 ^ i)) % 256
    ELSE 255 - (((-(other + 1)) \div (256 ^ i)) % 256)

\* parse_ncurses_char
parse_ncurses_char(ch) ==
    LET rows == {i \in 1 .. Len(KeyTable) : KeyTable[i][1] = ch}
    IN  IF rows # {}
        THEN KeyTable[CHOOSE i \in rows : \A j \in rows : i <= j][2]
        ELSE IF ch \in KEY_F1 .. KEY_F12
        THEN Ev("Key", "F", from_f(ToU8(ch - KEY_F0)))
        ELSE IF ch \in 277 .. 288 THEN Ev("Shift", "F", from_f(ToU8(ch - 276)))
        ELSE IF ch \in 289 .. 300 THEN Ev("Ctrl", "F", from_f(ToU8(ch - 288)))
        ELSE IF ch \in 301 .. 312
        THEN Ev("CtrlShift", "F", from_f(ToU8(ch - 300)))
        ELSE IF ch \in 313 .. 324 THEN Ev("Alt", "F", from_f(ToU8(ch - 312)))
        ELSE IF ch \in 1 .. 25 THEN CtrlChar(ctrl_letter(ch))
        ELSE Unknown([i \in 1 .. 4 |-> ByteOf(ch, i - 1)])

\* utf8::read_char(first, next): the bytes it takes from `more` (what the next
\* getch calls return, each `as u8`), whether it yields a char, and the char.
\* A lead byte announces 1 to 4 bytes; each further byte must be 10xxxxxx.
read_char(first, more) ==
    LET n == IF first < 128 THEN 1
             ELSE IF first \in 192 .. 223 THEN 2
             ELSE IF first \in 224 .. 239 THEN 3
             ELSE IF first \in 240 .. 247 THEN 4
             ELSE 0
        lead == IF n = 1 THEN first
                ELSE IF n = 2 THEN first % 32
                ELSE IF n = 3 THEN first % 16
                ELSE first % 8
        IsCont(b) == b \in 128 .. 191
        bad == {i \in 1 .. n - 1 : ~IsCont(more[i])}
        taken == IF n = 0 THEN 0
                 ELSE IF bad = {} THEN n - 1
                 ELSE CHOOSE i \in bad : \A j \in bad : i <= j
        RECURSIVE Acc(_, _)
        Acc(v, i) == IF i > n - 1 THEN v
                     ELSE Acc(v * 64 + (more[i] % 64), i + 1)
        cp == Acc(lead, 1)
        ok == /\ n # 0
              /\ bad = {}
              /\ cp <= 1114111
              /\ cp \notin 55296 .. 57343
    IN  [ok |-> ok, used |-> SubSeq(more, 1, taken),
         char |-> IF ok THEN cp ELSE 0]

\* Concrete::poll_event, reading ch and then codes from getch; `.unwrap()`
\* aborts the program when read_char yields no char.
poll_event(ch, codes) ==
    IF 32 <= ch /\ ch <= 255 /\ ch # 127
    THEN LET r == read_char(ToU8(ch), [i \in 1 .. Len(codes) |-> ToU8(codes[i])])
         IN  [ch |-> ch, used |-> r.used, aborted |-> ~r.ok,
              event |-> IF r.ok THEN Char(r.char) ELSE NoEvent]
    ELSE [ch |-> ch, used |-> <<>>, aborted |-> FALSE,
          event |-> parse_ncurses_char(ch)]

\* A u32 is [hi, lo], its value hi * 2^31 + lo; `fps as i32`.
ToI32(u) == IF u.hi = 0 THEN u.lo ELSE (u.lo - 2147483647) - 1

\* Rust's integer division, which rounds toward zero.
\* (i32::MIN divides every a above it to 0.)
TruncDiv(a, b) ==
    IF b < -2147483647 THEN 0
    ELSE LET q == (IF a < 0 THEN -a ELSE a) \div (IF b < 0 THEN -b ELSE b)
         IN  IF (a < 0) = (b < 0) THEN q ELSE -q

\* The codes typed in the model: every code of the decoder's tables, the
\* bytes around them, and codes outside every table.
RawCodes == (-2 .. 600) \cup {65535, 65536, 16777216, 2147483647, -2147483647}

\* What is typed after a lead byte: nothing more (-1 is what getch returns
\* then), an ASCII byte, continuation bytes, a key code.
MoreCodes == {-1, 65, 128, 191, 410}

\* The lead bytes that are followed by more codes in the model: the ends of
\* each range of lead bytes, and bytes inside them.
LeadCodes == {128, 191, 192, 195, 223, 224, 226, 237, 239, 240, 244, 247,
              248, 255}

\* What is typed before the program reads: one code, or a lead byte and the
\* three codes after it.
Inputs == {<<c>> : c \in RawCodes}
          \cup {<<c>> \o t : c \in LeadCodes, t \in [1 .. 3 -> MoreCodes]}

\* The rates given to set_refresh_rate.
Rates == {[hi |-> h, lo |-> l] : h \in {0, 1},
                                l \in {0, 1, 3, 30, 1000, 1001, 2147483647}}

\* ncurses::getch, called k times in a row: the codes typed, then -1 each
\* time the timeout ends the wait.
Getch(k) == [i \in 1 .. k |-> IF i <= Len(input) THEN input[i] ELSE -1]

\* Concrete::poll_event. With no timeout set, getch waits for a code: the
\* call goes on only when every code it reads has been typed.
PollEvent ==
    LET got == Getch(4)
        r == poll_event(got[1], SubSeq(got, 2, 4))
        read == 1 + Len(r.used)
    IN  /\ ~polled.aborted
        /\ timeout >= 0 \/ read <= Len(input)
        /\ polled' = r
        /\ input' = SubSeq(input, read + 1, Len(input))
        /\ UNCHANGED <<timeout, rate>>
        /\ UNCHANGED <<varsCache, varsDialog>>

\* Concrete::set_refresh_rate: the value given to ncurses::timeout
set_refresh_rate(fps) ==
    IF fps.hi = 0 /\ fps.lo = 0 THEN -1 ELSE TruncDiv(1000, ToI32(fps))

SetRefreshRate(fps) ==
    /\ ~polled.aborted
    /\ timeout' = set_refresh_rate(fps)
    /\ rate' = fps
    /\ UNCHANGED <<input, polled>>
    /\ UNCHANGED <<varsCache, varsDialog>>

\* ncurses waits without a timeout until one is set.
InitInput ==
    /\ timeout = -1
    /\ rate = [hi |-> 0, lo |-> 0]
    /\ input = <<>>
    /\ polled = [ch |-> -1, used |-> <<>>, aborted |-> FALSE, event |-> NoEvent]

\* The same, with codes typed.
InitTyped ==
    /\ timeout = -1
    /\ rate = [hi |-> 0, lo |-> 0]
    /\ input \in Inputs
    /\ polled = [ch |-> -1, used |-> <<>>, aborted |-> FALSE, event |-> NoEvent]

NextInput ==
    \/ PollEvent
    \/ \E fps \in Rates : SetRefreshRate(fps)

\* ===================================================================== dialog

\* Largest number of buttons a dialog is given.
MaxButtons == 2

\* Vec2 and Vec4 (vec.rs)
Vec2(x, y) == [x |-> x, y |-> y]
Vec4(left, right, top, bottom) ==
    [left |-> left, right |-> right, top |-> top, bottom |-> bottom]
horizontal(v) == v.left + v.right
vertical(v) == v.top + v.bottom
combined(v) == Vec2(horizontal(v), vertical(v))
Add2(a, b) == Vec2(a.x + b.x, a.y + b.y)
\* Vec2::checked_sub: is there a result, and the result
fits(a, b) == a.x >= b.x /\ a.y >= b.y
Sub2(a, b) == Vec2(a.x - b.x, a.y - b.y)
\* Vec2::saturating_sub
saturating_sub(a, b) == Vec2(Max(a.x - b.x, 0), Max(a.y - b.y, 0))

\* Focus
Content == [kind |-> "Content", i |-> 0]
Button(i) == [kind |-> "Button", i |-> i]

\* EventResult: Ignored, Consumed(None), Consumed(Some(callback))
EventResults == {"Ignored", "ConsumedNone", "ConsumedSome"}

\* Direction (direction.rs)
Directions == {"front", "back", "up", "down", "left", "right"}

\* The events sent to the dialog in the model.
DialogEvents == {Key("Down"), Key("Tab"), Shift("Tab"), Key("Up"),
                 Key("Left"), Key("Right"), Key("Enter"), Char(97),
                 Shift("Up")}

\* The sizes buttons ask for, the sizes the content asks for, the sizes the
\* dialog is measured against and laid out in, the paddings and titles set.
ButtonWants == {Vec2(4, 1), Vec2(6, 2)}
ContentSizes == {Vec2(10, 5), Vec2(0, 0)}
ReqSizes == {Vec2(0, 0), Vec2(5, 3), Vec2(40, 20)}
Paddings == {Vec4(1, 1, 0, 0), Vec4(1, 0, 1, 0)}
Titles == {0, 12}

\* The regions the dialog is drawn on: those, a wide region too low for a
\* button row and a high region too narrow for the borders and the padding.
DrawSizes == ReqSizes \cup {Vec2(40, 3), Vec2(3, 20)}

GoesDown_NoShiftTab(event) == event \in {Key("Down"), Key("Tab")}

\* The events that leave the content for the buttons.
GoesDown(event) == event \in {Key("Down"), Key("Tab"), Shift("Tab")}

\* The events that leave a button for the content, and the direction each
\* gives to content.take_focus.
GoesUp(event) == event \in {Key("Up"), Shift("Tab"), Key("Tab")}

EntryDirection_Swapped(event) ==
    IF event = Key("Up") THEN "down"
    ELSE IF event = Shift("Tab") THEN "front"
    ELSE "back"

EntryDirection(event) ==
    IF event = Key("Up") THEN "down"
    ELSE IF event = Shift("Tab") THEN "back"
    ELSE "front"

\* The guards of the Right and Left arms.
CanGoRight_OffByOne(i, n) == i + 1 <= n

CanGoRight(i, n) == i + 1 < n

CanGoLeft_Unguarded(i) == i >= 0

CanGoLeft(i) == i > 0

\* Dialog::on_event, leaving a button for the content: the focus moves and
\* the event is consumed when content.take_focus accepts, else nothing
\* changes and the event is ignored.
to_content_FocusFirst(f, accept) ==
    [focus |-> Content,
     result |-> IF accept THEN "ConsumedNone" ELSE "Ignored"]
to_content(f, accept) ==
    IF accept THEN [focus |-> Content, result |-> "ConsumedNone"]
    ELSE [focus |-> f, result |-> "Ignored"]

\* Dialog::on_event: the new focus, the result, which child got the event and
\* the direction content.take_focus was called with. `res` is what the child
\* that got the event returns and `accept` what content.take_focus returns.
\* Indexing self.buttons[i] out of bounds panics.
on_event(f, n, event, res, accept) ==
    IF f.kind = "Content"
    THEN IF res = "Ignored" /\ n # 0
         THEN IF GoesDown(event)
              THEN [focus |-> Button(0), result |-> "ConsumedNone",
                    asked |-> "content", dir |-> "none"]
              ELSE [focus |-> f, result |-> "Ignored",
                    asked |-> "content", dir |-> "none"]
         ELSE [focus |-> f, result |-> res, asked |-> "content",
               dir |-> "none"]
    ELSE IF ~(f.i < n)
    THEN [focus |-> f, result |-> "panic", asked |-> "none", dir |-> "none"]
    ELSE IF res = "Ignored"
    THEN IF GoesUp(event)
         THEN LET dir == EntryDirection(event)
                  t == to_content(f, accept)
              IN  [focus |-> t.focus, result |-> t.result,
                   asked |-> "button", dir |-> dir]
         ELSE IF event = Key("Right") /\ CanGoRight(f.i, n)
         THEN [focus |-> Button(f.i + 1), result |-> "ConsumedNone",
               asked |-> "button", dir |-> "none"]
         ELSE IF event = Key("Left") /\ CanGoLeft(f.i)
         THEN [focus |-> Button(f.i - 1), result |-> "ConsumedNone",
               asked |-> "button", dir |-> "none"]
         ELSE [focus |-> f, result |-> "Ignored", asked |-> "button",
               dir |-> "none"]
    ELSE [focus |-> f, result |-> res, asked |-> "button", dir |-> "none"]

take_focus_ContentLast(f, n, accept) ==
    IF n # 0 THEN [focus |-> Button(0), ret |-> TRUE]
    ELSE IF accept THEN [focus |-> Content, ret |-> TRUE]
    ELSE [focus |-> f, ret |-> FALSE]

\* Dialog::take_focus: the new focus and the value returned.
take_focus(f, n, accept) ==
    IF accept THEN [focus |-> Content, ret |-> TRUE]
    ELSE IF n # 0 THEN [focus |-> Button(0), ret |-> TRUE]
    ELSE [focus |-> f, ret |-> FALSE]

\* buttons_size of Dialog::required_size
RECURSIVE SumX(_, _)
SumX(bs, i) == IF i > Len(bs) THEN 0 ELSE bs[i].want.x + SumX(bs, i + 1)
RECURSIVE MaxRow(_, _)
MaxRow(bs, i) ==
    IF i > Len(bs) THEN 0 ELSE Max(bs[i].want.y + 1, MaxRow(bs, i + 1))
buttons_size_NoGaps(bs) == Vec2(SumX(bs, 1), MaxRow(bs, 1))
buttons_size(bs) == Vec2(Max(Len(bs) - 1, 0) + SumX(bs, 1), MaxRow(bs, 1))

\* A call the dialog makes to a child view.
Call(view, op) == [view |-> view, op |-> op]

\* The calls of required_size's loop over self.buttons.iter()
RECURSIVE MeasureCalls(_, _)
MeasureCalls(n, i) ==
    IF i >= n THEN <<>>
    ELSE <<Call(Button(i), "required_size")>> \o MeasureCalls(n, i + 1)

\* self.buttons.iter_mut().rev(): the indices of n buttons in layout's order
button_order_Forward(n) == [k \in 1 .. n |-> k - 1]
button_order(n) == [k \in 1 .. n |-> n - k]

\* The calls of layout's loop over the buttons, from the k-th of the order on.
RECURSIVE LayoutCalls(_, _)
LayoutCalls(order, k) ==
    IF k > Len(order) THEN <<>>
    ELSE <<Call(Button(order[k]), "required_size"),
           Call(Button(order[k]), "layout")>> \o LayoutCalls(order, k + 1)

\* Dialog::required_size, its inner_size before the title is looked at: the
\* content beside or above the button row, inside padding and borders.
inner_size_NoPadding(content_size, bsize) ==
    Add2(Vec2(Max(content_size.x, bsize.x), content_size.y + bsize.y),
         combined(borders))
inner_size(content_size, bsize) ==
    Add2(Add2(Vec2(Max(content_size.x, bsize.x), content_size.y + bsize.y),
              combined(padding)),
         combined(borders))

\* Dialog::required_size: the size returned and whether the content was
\* measured; content_size is what the content returns when it is.
required_size(req, content_size) ==
    LET nomans_land == Add2(combined(padding), combined(borders))
        bsize == buttons_size(buttons)
        taken == Add2(nomans_land, Vec2(0, bsize.y))
    IN  IF ~fits(req, taken)
        THEN [ret |-> taken, measured |-> FALSE, content_req |-> Vec2(0, 0),
              calls |-> MeasureCalls(Len(buttons), 0)]
        ELSE LET inner == inner_size(content_size, bsize)
             IN  [ret |-> IF title # 0
                          THEN Vec2(Max(inner.x, title + 6), inner.y)
                          ELSE inner,
                  measured |-> TRUE,
                  content_req |-> Sub2(req, taken),
                  calls |-> Append(MeasureCalls(Len(buttons), 0),
                                   Call(Content, "required_size"))]

\* Dialog::layout: the buttons with their sizes set, and the size given to
\* the content.
layout(size) ==
    LET taken == Add2(combined(borders), combined(padding))
        inner == saturating_sub(size, taken)
        height == MaxRow(buttons, 1)
        buttons_height == IF height > inner.y THEN inner.y ELSE height
    IN  [buttons |-> [i \in 1 .. Len(buttons) |->
                          [buttons[i] EXCEPT !.size = buttons[i].want]],
         content |-> saturating_sub(inner, Vec2(0, buttons_height)),
         calls |-> Append(LayoutCalls(button_order(Len(buttons)), 1),
                          Call(Content, "layout"))]

\* What a call of Dialog::draw paints: the buttons whose draw was called, and
\* whether the content, the box and the title were drawn.
NothingPainted ==
    [buttons |-> {}, content |-> FALSE, box |-> FALSE, title |-> FALSE]

\* Dialog::draw on a printer of the given size. Where on the screen each part
\* goes (the offsets) is not part of the model.
RECURSIVE RowDrawn(_, _)
RowDrawn(bs, i) ==
    IF i > Len(bs) THEN 0 ELSE Max(bs[i].size.y + 1, RowDrawn(bs, i + 1))
draw(size) ==
    LET overhead == horizontal(padding) + horizontal(borders)
        overhead_bottom == padding.bottom + borders.bottom + 1
        buttons_height == RowDrawn(buttons, 1)
        taken == Add2(Add2(Vec2(0, buttons_height), combined(borders)),
                      combined(padding))
    IN  IF size.x < overhead THEN NothingPainted
        ELSE IF size.y < overhead_bottom THEN NothingPainted
        ELSE IF ~fits(size, taken)
        THEN [NothingPainted EXCEPT !.buttons = 1 .. Len(buttons)]
        ELSE [buttons |-> 1 .. Len(buttons), content |-> TRUE, box |-> TRUE,
              title |-> title # 0 /\ title + 4 <= size.x]

\* The record of a Dialog call; the fields a call does not set are at rest.
NoCall ==
    [op |-> "none", event |-> NoEvent, res |-> "none", accept |-> FALSE,
     asked |-> "none", dir |-> "none", result |-> "none", ret |-> FALSE,
     preFocus |-> Content, nButtons |-> 0, size |-> Vec2(0, 0),
     out |-> Vec2(0, 0), content_size |-> Vec2(0, 0),
     content_req |-> Vec2(0, 0), painted |-> NothingPainted,
     calls |-> <<>>]

Alive == dlast.result # "panic"

\* Dialog::button
AddButton(want) ==
    /\ Alive
    /\ Len(buttons) < MaxButtons
    /\ buttons' = Append(buttons, [want |-> want, size |-> Vec2(0, 0)])
    /\ dlast' = [NoCall EXCEPT !.op = "button", !.preFocus = focus,
                               !.nButtons = Len(buttons)]
    /\ UNCHANGED <<title, padding, borders, focus, content>>
    /\ UNCHANGED <<varsCache, varsInput>>

\* Dialog::set_title
SetTitle(t) ==
    /\ Alive
    /\ title' = t
    /\ dlast' = [NoCall EXCEPT !.op = "set_title", !.preFocus = focus,
                               !.nButtons = Len(buttons)]
    /\ UNCHANGED <<buttons, padding, borders, focus, content>>
    /\ UNCHANGED <<varsCache, varsInput>>

\* Dialog::padding
SetPadding(p) ==
    /\ Alive
    /\ padding' = p
    /\ dlast' = [NoCall EXCEPT !.op = "padding", !.preFocus = focus,
                               !.nButtons = Len(buttons)]
    /\ UNCHANGED <<title, buttons, borders, focus, content>>
    /\ UNCHANGED <<varsCache, varsInput>>

OnEvent(event, res, accept) ==
    /\ Alive
    /\ LET r == on_event(focus, Len(buttons), event, res, accept)
       IN  /\ focus' = r.focus
           /\ dlast' = [NoCall EXCEPT !.op = "on_event", !.event = event,
                                      !.res = res,
                                      !.accept = (r.dir # "none" /\ accept),
                                      !.asked = r.asked, !.dir = r.dir,
                                      !.result = r.result,
                                      !.preFocus = focus,
                                      !.nButtons = Len(buttons)]
    /\ UNCHANGED <<title, buttons, padding, borders, content>>
    /\ UNCHANGED <<varsCache, varsInput>>

TakeFocus(source, accept) ==
    /\ Alive
    /\ LET r == take_focus(focus, Len(buttons), accept)
       IN  /\ focus' = r.focus
           /\ dlast' = [NoCall EXCEPT !.op = "take_focus", !.dir = source,
                                      !.accept = accept, !.ret = r.ret,
                                      !.preFocus = focus,
                                      !.nButtons = Len(buttons)]
    /\ UNCHANGED <<title, buttons, padding, borders, content>>
    /\ UNCHANGED <<varsCache, varsInput>>

RequiredSize(req, content_size) ==
    /\ Alive
    /\ LET r == required_size(req, content_size)
       IN  /\ content' = [content EXCEPT !.measured = @ \/ r.measured,
                                         !.asked = TRUE]
           /\ dlast' = [NoCall EXCEPT
                            !.op = "required_size", !.size = req,
                            !.out = r.ret,
                            !.content_size = IF r.measured THEN content_size
                                             ELSE Vec2(0, 0),
                            !.content_req = r.content_req,
                            !.ret = r.measured, !.calls = r.calls,
                            !.preFocus = focus,
                            !.nButtons = Len(buttons)]
    /\ UNCHANGED <<title, buttons, padding, borders, focus>>
    /\ UNCHANGED <<varsCache, varsInput>>

Layout(size) ==
    /\ Alive
    /\ LET r == layout(size)
       IN  /\ buttons' = r.buttons
           /\ content' = [content EXCEPT
                              !.asked = FALSE,
                              !.conforming = @ /\ content.asked]
           /\ dlast' = [NoCall EXCEPT !.op = "layout", !.size = size,
                                      !.out = r.content, !.calls = r.calls,
                                      !.ret = content.measured,
                                      !.preFocus = focus,
                                      !.nButtons = Len(buttons)]
    /\ UNCHANGED <<title, padding, borders, focus>>
    /\ UNCHANGED <<varsCache, varsInput>>

\* Dialog::draw
Draw(size) ==
    /\ Alive
    /\ dlast' = [NoCall EXCEPT !.op = "draw", !.size = size,
                               !.painted = draw(size), !.preFocus = focus,
                               !.nButtons = Len(buttons)]
    /\ UNCHANGED <<title, buttons, padding, borders, focus, content>>
    /\ UNCHANGED <<varsCache, varsInput>>

\* Dialog::focus_view: found is whether the content finds the view.
FocusView(found) ==
    /\ Alive
    /\ dlast' = [NoCall EXCEPT !.op = "focus_view", !.ret = found,
                               !.preFocus = focus,
                               !.nButtons = Len(buttons)]
    /\ UNCHANGED <<title, buttons, padding, borders, focus, content>>
    /\ UNCHANGED <<varsCache, varsInput>>

\* Dialog::around
InitDialog ==
    /\ title = 0
    /\ buttons = <<>>
    /\ padding = Vec4(1, 1, 0, 0)
    /\ borders = Vec4(1, 1, 1, 1)
    /\ focus = Content
    /\ content = [measured |-> FALSE, asked |-> FALSE, conforming |-> TRUE]
    /\ dlast = NoCall

\* The calls that drive the focus, on a dialog with the title and the padding
\* it was built with.
NextDialog ==
    \/ \E w \in ButtonWants : AddButton(w)
    \/ \E e \in DialogEvents, res \in EventResults, a \in BOOLEAN :
           OnEvent(e, res, a)
    \/ \E d \in Directions, a \in BOOLEAN : TakeFocus(d, a)
    \/ \E req \in ReqSizes, cs \in ContentSizes : RequiredSize(req, cs)
    \/ \E size \in ReqSizes : Layout(size)
    \/ \E size \in DrawSizes : Draw(size)
    \/ \E found \in BOOLEAN : FocusView(found)

\* The calls that build, measure, lay out and draw a dialog.
NextGeometry ==
    \/ \E w \in ButtonWants : AddButton(w)
    \/ \E t \in Titles : SetTitle(t)
    \/ \E p \in Paddings : SetPadding(p)
    \/ \E req \in ReqSizes, cs \in ContentSizes : RequiredSize(req, cs)
    \/ \E size \in ReqSizes : Layout(size)
    \/ \E size \in DrawSizes : Draw(size)

\* ============================================================= specifications

\* A backend on a terminal of any pair capacity, and a new dialog.
Init == InitCache /\ InitInput /\ InitDialog

\* The same on a terminal of the largest capacity.
InitColor ==
    InitCache /\ COLOR_PAIRS = MaxColorPairs /\ InitInput /\ InitDialog

\* The same with codes typed at the terminal.
InitInputs ==
    InitCache /\ COLOR_PAIRS = MaxColorPairs /\ InitTyped /\ InitDialog

\* The backend's colors, with the input and the dialog at rest.
SpecCache == Init /\ [][NextCache]_vars

\* The backend's colors under callbacks that may panic.
SpecStyle == Init /\ [][NextStyle]_vars

\* The backend's input, with the colors and the dialog at rest.
SpecInput == InitInputs /\ [][NextInput]_vars

\* The dialog's focus, with the backend at rest.
SpecDialog == InitColor /\ [][NextDialog]_vars

\* The dialog's geometry, with the backend at rest.
SpecGeometry == InitColor /\ [][NextGeometry]_vars

\* ======================================================================= claims

Size(prs) == Cardinality(DOMAIN prs)

InFocusRange(f, n) ==
    \/ f = Content
    \/ f.kind = "Button" /\ 0 <= f.i /\ f.i < n

\* C1: in every state the dialog reaches, the focus is Content or Button(i)
\* with 0 <= i < number of buttons, it is Content while there is no button,
\* and on_event has never indexed a button that does not exist.
C1_FocusInRange ==
    /\ InFocusRange(focus, Len(buttons))
    /\ Len(buttons) = 0 => focus = Content
    /\ dlast.result # "panic"

\* C1 happens: on_event has moved the focus to the last of two buttons.
C1_Witness ==
    /\ dlast.op = "on_event"
    /\ Len(buttons) = 2
    /\ dlast.preFocus = Button(0)
    /\ focus = Button(1)

\* C2: after every get_or_create call the cache holds at most COLOR_PAIRS - 1
\* entries.
C2_AtMostCapacity == last.called => Size(pairs) <= COLOR_PAIRS - 1

\* C3: a get_or_create call of an unmapped pair, made when the cache holds
\* COLOR_PAIRS - 1 entries, returns slot COLOR_PAIRS - 1, removes the one pair
\* that held this slot and no other, and leaves COLOR_PAIRS - 1 entries.
C3_EvictsLastSlot ==
    (last.called /\ ~last.wasMapped /\ Size(last.prePairs) = COLOR_PAIRS - 1)
    => /\ last.ret = COLOR_PAIRS - 1
       /\ Size(pairs) = COLOR_PAIRS - 1
       /\ \E q \in DOMAIN last.prePairs :
              /\ last.prePairs[q] = COLOR_PAIRS - 1
              /\ DOMAIN pairs = (DOMAIN last.prePairs \ {q}) \cup {last.pair}
              /\ \A p \in DOMAIN last.prePairs \ {q} :
                     pairs[p] = last.prePairs[p]

\* C4: every get_or_create call of a pair returns the slot the first call of
\* that pair returned, and a call made while the pair is mapped leaves the
\* cache as it was and calls init_pair for no slot.
C4_Memoized ==
    last.called
    => /\ last.ret = firstSlot[last.pair]
       /\ last.wasMapped => /\ pairs = last.prePairs
                            /\ last.init_pair = None

\* C4 happens: get_or_create was called for a pair mapped to a slot, with
\* another pair in the cache.
C4_Witness ==
    /\ last.called
    /\ last.wasMapped
    /\ last.ret >= 1
    /\ Size(pairs) >= 2

\* C5: every slot get_or_create returns, every slot in the cache and every
\* slot given to init_pair is in 1 .. COLOR_PAIRS - 1.
C5_SlotInRange ==
    /\ last.called => last.ret \in 1 .. COLOR_PAIRS - 1
    /\ \A p \in DOMAIN pairs : pairs[p] \in 1 .. COLOR_PAIRS - 1
    /\ \A s \in DOMAIN palette : s \in 1 .. COLOR_PAIRS - 1

\* C6: poll_event returns an event for every code read, whatever follows a
\* lead byte; it never aborts.
C6_PollNeverAborts == ~polled.aborted

\* C7: with the focus on Content, on_event gives the event to the content;
\* when the content ignores it and there is a button, Down, Tab and Shift+Tab
\* set the focus to Button(0) and are Consumed with no action, and any other
\* event is Ignored; when the content consumes it, the content's result is
\* returned and the focus stays Content.
C7_FromContent ==
    (dlast.op = "on_event" /\ dlast.preFocus = Content)
    => /\ dlast.asked = "content"
       /\ (dlast.res = "Ignored" /\ dlast.nButtons >= 1)
          => IF dlast.event \in {Key("Down"), Key("Tab"), Shift("Tab")}
             THEN focus = Button(0) /\ dlast.result = "ConsumedNone"
             ELSE dlast.result = "Ignored"
       /\ dlast.res # "Ignored"
          => dlast.result = dlast.res /\ focus = Content

\* C7 happens: the content ignored Shift+Tab and the focus went to Button(0).
C7_Witness ==
    /\ dlast.op = "on_event"
    /\ dlast.preFocus = Content
    /\ dlast.res = "Ignored"
    /\ dlast.event = Shift("Tab")
    /\ focus = Button(0)

\* C8: with the focus on Button(i) and the button ignoring the event, Up asks
\* the content to take the focus from below, Shift+Tab from the back and Tab
\* from the front; when the content accepts, the focus is Content and the
\* event Consumed with no action; when it refuses, the focus stays Button(i)
\* and the event is Ignored.
C8_BackToContent ==
    (/\ dlast.op = "on_event"
     /\ dlast.preFocus.kind = "Button"
     /\ dlast.res = "Ignored"
     /\ dlast.event \in {Key("Up"), Shift("Tab"), Key("Tab")})
    => /\ dlast.asked = "button"
       /\ dlast.dir = (IF dlast.event = Key("Up") THEN "down"
                       ELSE IF dlast.event = Shift("Tab") THEN "back"
                       ELSE "front")
       /\ IF dlast.accept
          THEN focus = Content /\ dlast.result = "ConsumedNone"
          ELSE focus = dlast.preFocus /\ dlast.result = "Ignored"

\* C8 happens: the second button ignored Shift+Tab and the content took the
\* focus.
C8_Witness ==
    /\ dlast.op = "on_event"
    /\ dlast.preFocus = Button(1)
    /\ dlast.res = "Ignored"
    /\ dlast.event = Shift("Tab")
    /\ dlast.accept
    /\ focus = Content

\* C9: with the focus on Button(i) and the button ignoring the event, Right
\* moves the focus to Button(i+1) and is Consumed exactly when i+1 is below
\* the number of buttons, Left moves it to Button(i-1) and is Consumed exactly
\* when i > 0; otherwise the focus is unchanged and the event Ignored.
C9_LeftRight ==
    (/\ dlast.op = "on_event"
     /\ dlast.preFocus.kind = "Button"
     /\ dlast.res = "Ignored")
    => LET i == dlast.preFocus.i
       IN  /\ dlast.event = Key("Right")
              => IF i + 1 < dlast.nButtons
                 THEN focus = Button(i + 1) /\ dlast.result = "ConsumedNone"
                 ELSE focus = dlast.preFocus /\ dlast.result = "Ignored"
           /\ dlast.event = Key("Left")
              => IF i > 0
                 THEN focus = Button(i - 1) /\ dlast.result = "ConsumedNone"
                 ELSE focus = dlast.preFocus /\ dlast.result = "Ignored"

\* C9 happens: Left on Button(0), with two buttons, was Ignored and left the
\* focus where it was.
C9_Witness ==
    /\ dlast.op = "on_event"
    /\ dlast.preFocus = Button(0)
    /\ dlast.nButtons = 2
    /\ dlast.res = "Ignored"
    /\ dlast.event = Key("Left")
    /\ dlast.result = "Ignored"
    /\ focus = Button(0)

\* C10: take_focus, from any direction and any focus: when the content
\* accepts, the focus is Content and the call returns true; otherwise, with a
\* button, the focus is Button(0) and the call returns true; otherwise the
\* call returns false and the focus is unchanged.
C10_TakeFocus ==
    dlast.op = "take_focus"
    => IF dlast.accept THEN focus = Content /\ dlast.ret
       ELSE IF dlast.nButtons >= 1 THEN focus = Button(0) /\ dlast.ret
       ELSE focus = dlast.preFocus /\ ~dlast.ret

\* C10 happens: take_focus found two buttons and a content that accepts, with
\* the focus on the second button.
C10_Witness ==
    /\ dlast.op = "take_focus"
    /\ dlast.preFocus = Button(1)
    /\ dlast.accept
    /\ dlast.ret
    /\ focus = Content

\* C11: when a with_color call ends, by the return of f or otherwise, the
\* recorded current style is the one recorded when the call began, at every
\* depth of nesting.
C11_StyleRestored ==
    [][Len(stack') < Len(stack)
       => current_style' = stack[Len(stack)].current]_vars

\* The variants of Event that carry a Key with a modifier.
Modifiers == {"Shift", "Alt", "AltShift", "Ctrl", "CtrlShift", "CtrlAlt"}

\* e is a Character, a named key bare or with one modifier of mods, a
\* control-character, Refresh, WindowResize or the raw/unknown event.
InVocabulary(e, mods) ==
    \/ e.kind = "Char" /\ e.key = "" /\ e.bytes = <<>>
    \/ e.kind \in {"Key"} \cup mods /\ e.key # "" /\ e.bytes = <<>>
    \/ e.kind = "CtrlChar" /\ e.key = "" /\ e.bytes = <<>>
    \/ e = Refresh
    \/ e = WindowResize
    \/ e.kind = "Unknown" /\ Len(e.bytes) = 4

\* C12 (as amended): every event poll_event produces is a Character, a named
\* key bare or with exactly one of Shift, Alt, AltShift, Ctrl, CtrlShift,
\* CtrlAlt, a control-character, Refresh, WindowResize or the raw/unknown
\* event.
C12_ClosedVocabulary ==
    [][(polled' # polled /\ ~polled'.aborted)
       => InVocabulary(polled'.event, Modifiers)]_vars

\* C12 (as stated): the same with the modifiers Shift, Alt, Ctrl, CtrlShift
\* and CtrlAlt only.
C12_Original ==
    [][(polled' # polled /\ ~polled'.aborted)
       => InVocabulary(polled'.event, Modifiers \ {"AltShift"})]_vars

C12_Witness == polled.ch = 521 /\ polled.event = AltShift("Del")

\* What the claim C13 fixes of the event decoded from the code p.ch.
DecodesReserved(p) ==
    /\ p.ch = -1 => p.event = Refresh
    /\ p.ch = 9 => p.event = Key("Tab")
    /\ p.ch = 10 => p.event = Key("Enter")
    /\ p.ch = 27 => p.event = Key("Esc")
    /\ p.ch = 127 => p.event = Key("Backspace")
    /\ \A c \in (1 .. 25) \ {9, 10} : p.ch = c => p.event = CtrlChar(96 + c)

\* C13: -1 decodes to Refresh, 9 to Tab, 10 to Enter, 27 to Esc, 127 to
\* Backspace, and every other code c of 1..25 to the control-character event
\* of the letter 'a' + c - 1.
C13_ReservedCodes == [][polled' # polled => DecodesReserved(polled')]_vars

C13_Witness == polled.ch = 25 /\ polled.event = CtrlChar(121)

\* The dialog of C14 has just been measured, without underflow: no buttons,
\* padding top 1, bottom 0, left 1, right 0, borders 1, no title, and a
\* content that wants (10, 5).
C14_Case ==
    /\ dlast.op = "required_size"
    /\ dlast.ret
    /\ Len(buttons) = 0
    /\ padding = Vec4(1, 0, 1, 0)
    /\ borders = Vec4(1, 1, 1, 1)
    /\ title = 0
    /\ dlast.content_size = Vec2(10, 5)

\* C14 (as amended): that dialog reports the desired size (13, 8).
C14_Reports13x8 == C14_Case => dlast.out = Vec2(13, 8)

\* C14 (as stated): that dialog reports the desired size (14, 8).
C14_Original == C14_Case => dlast.out = Vec2(14, 8)

C14_Witness ==
    C14_Case /\ dlast.size = Vec2(40, 20) /\ dlast.out = Vec2(13, 8)

\* The region of the last draw was too small for the dialog: narrower than
\* padding and borders, or lower than borders, padding and the button row.
TooSmall ==
    \/ dlast.size.x < horizontal(padding) + horizontal(borders)
    \/ dlast.size.y < vertical(padding) + vertical(borders)
                      + RowDrawn(buttons, 1)

\* The buttons the last draw painted: those it drew on a region that is not
\* empty.
PaintedButtons ==
    {i \in dlast.painted.buttons :
         buttons[i].size.x > 0 /\ buttons[i].size.y > 0}

\* C15: a draw on a region too small for the dialog paints no button, no
\* content, no border and no title.
C15_TooSmallPaintsNothing ==
    (dlast.op = "draw" /\ TooSmall)
        => /\ PaintedButtons = {}
           /\ ~dlast.painted.content
           /\ ~dlast.painted.box
           /\ ~dlast.painted.title

\* 1000 / r in integer division, for the u32 r = [hi, lo] (2^31 and more
\* divide 1000 to 0).
ThousandOver(r) == IF r.hi = 0 THEN 1000 \div r.lo ELSE 0

\* C16: after set_refresh_rate(0) reads wait without end (a negative timeout);
\* after set_refresh_rate(r), r a nonzero u32, the timeout is 1000 / r in
\* integer division and not negative, so that a read without input ends.
C16_TimeoutOfRate ==
    IF rate.hi = 0 /\ rate.lo = 0
    THEN timeout < 0
    ELSE timeout = ThousandOver(rate) /\ timeout >= 0

\* C17: in a run where the dialog is measured before each of its layouts,
\* every layout call the dialog makes to a child (the content, a button) comes
\* after a required_size call to that child, in the same call of the dialog
\* or in an earlier one (for a layout, dlast.ret is whether the content had
\* been measured).
C17_MeasuredBeforeLaidOut ==
    (dlast.op = "layout" /\ content.conforming)
        => \A k \in 1 .. Len(dlast.calls) :
               dlast.calls[k].op = "layout"
                   => \/ \E j \in 1 .. k - 1 :
                             dlast.calls[j]
                                 = Call(dlast.calls[k].view, "required_size")
                      \/ dlast.calls[k].view = Content /\ dlast.ret

\* The widths of the first k buttons added up, and the height of the button
\* row: the highest button and one row above it, nothing without buttons.
RECURSIVE WidthOfButtons(_)
WidthOfButtons(k) ==
    IF k = 0 THEN 0 ELSE buttons[k].want.x + WidthOfButtons(k - 1)
RowHeight ==
    IF buttons = <<>> THEN 0
    ELSE 1 + CHOOSE h \in {buttons[i].want.y : i \in 1 .. Len(buttons)} :
                 \A i \in 1 .. Len(buttons) : buttons[i].want.y <= h

\* C18: a required_size that does not underflow returns the width
\* max(content width, button widths + one gap between two buttons) + padding
\* + borders, raised to the title's width + 6 under a title, and the height
\* content height + button row + padding + borders; the content is measured
\* against the request less padding, borders and the button row.
C18_RequiredSize ==
    (dlast.op = "required_size" /\ dlast.ret)
        => LET n == Len(buttons)
               row == WidthOfButtons(n) + (IF n = 0 THEN 0 ELSE n - 1)
               w == Max(dlast.content_size.x, row)
                    + padding.left + padding.right
                    + borders.left + borders.right
               h == dlast.content_size.y + RowHeight
                    + padding.top + padding.bottom
                    + borders.top + borders.bottom
           IN  /\ dlast.out.x = IF title # 0 THEN Max(w, title + 6) ELSE w
               /\ dlast.out.y = h
               /\ dlast.content_req.x
                      = dlast.size.x - padding.left - padding.right
                        - borders.left - borders.right
               /\ dlast.content_req.y
                      = dlast.size.y - padding.top - padding.bottom
                        - borders.top - borders.bottom - RowHeight
               /\ dlast.content_req.x >= 0
               /\ dlast.content_req.y >= 0

C18_Witness ==
    /\ dlast.op = "required_size"
    /\ dlast.ret
    /\ Len(buttons) = 2
    /\ title = 0
    /\ dlast.content_size = Vec2(0, 0)
    /\ dlast.out = Vec2(15, 5)

\* C19: layout measures and lays out the buttons from the last to the first,
\* then lays out the content in (W, H - min(R, H)), (W, H) being the size less
\* padding and borders, 0 where that would be negative, and R the height of
\* the button row: the content and the clamped row fill H, and no dimension
\* is negative.
C19_Layout ==
    dlast.op = "layout"
        => LET n == Len(buttons)
               W == Max(dlast.size.x - padding.left - padding.right
                        - borders.left - borders.right, 0)
               H == Max(dlast.size.y - padding.top - padding.bottom
                        - borders.top - borders.bottom, 0)
               R == IF RowHeight < H THEN RowHeight ELSE H
           IN  /\ Len(dlast.calls) = 2 * n + 1
               /\ \A k \in 1 .. n :
                      /\ dlast.calls[2 * k - 1]
                             = Call(Button(n - k), "required_size")
                      /\ dlast.calls[2 * k] = Call(Button(n - k), "layout")
               /\ dlast.calls[2 * n + 1] = Call(Content, "layout")
               /\ dlast.out = Vec2(W, H - R)
               /\ dlast.out.y + R = H
               /\ dlast.out.x >= 0
               /\ dlast.out.y >= 0

C19_Witness ==
    /\ dlast.op = "layout"
    /\ Len(buttons) = 2
    /\ dlast.size = Vec2(5, 3)
    /\ dlast.calls[1] = Call(Button(1), "required_size")
    /\ dlast.out = Vec2(1, 0)

\* C20: once a style has been applied through set_colors, the recorded
\* current style is mapped in the cache to the slot last applied at the
\* driver, and that slot was last defined with the style's colors.
C20_CurrentStyleActive ==
    attr # None
        => /\ current_style \in DOMAIN pairs
           /\ pairs[current_style] = attr
           /\ attr \in DOMAIN palette
           /\ palette[attr] = current_style

\* C21: in every state of the cache no two pairs are mapped to the same slot
\* and the slots in use are 1 .. number of entries; a call leaves every pair
\* that held a slot below COLOR_PAIRS - 1 in the cache, with its slot.
C21_SlotsDense ==
    /\ \A p, q \in DOMAIN pairs : p # q => pairs[p] # pairs[q]
    /\ {pairs[p] : p \in DOMAIN pairs} = 1 .. Size(pairs)
    /\ \A p \in DOMAIN last.prePairs :
           last.prePairs[p] < COLOR_PAIRS - 1
               => p \in DOMAIN pairs /\ pairs[p] = last.prePairs[p]

\* C22: an on_event call that returns Ignored leaves the focus as it was, and
\* one that changes the focus returns Consumed(None); required_size, layout
\* and draw leave the focus as it was.
C22_FocusFrame ==
    /\ dlast.op = "on_event"
           => /\ dlast.result = "Ignored" => focus = dlast.preFocus
              /\ focus # dlast.preFocus => dlast.result = "ConsumedNone"
    /\ dlast.op \in {"required_size", "layout", "draw"}
           => focus = dlast.preFocus

C22_Witness ==
    /\ dlast.op = "on_event"
    /\ dlast.preFocus = Button(1)
    /\ dlast.event = Key("Up")
    /\ dlast.res = "Ignored"
    /\ ~dlast.accept
    /\ dlast.result = "Ignored"
    /\ focus = Button(1)

\* C23: after focus_view has returned Ok the dialog's focus is Content.
C23_FocusViewFocusesContent ==
    (dlast.op = "focus_view" /\ dlast.ret) => focus = Content

====
